---- MODULE Spec2Model ----
(***************************************************************************)
(* Sensor-reading pipeline of project-4:                                   *)
(*   normalize_readings.py  raw CSV/JSON readings -> readings_normalized   *)
(*   measure_rdflib.py      readings_normalized   -> RDF graph (turtle)    *)
(*   run_sparql_qc.py       RDF graph + queries   -> exit status           *)
(*                                                                         *)
(* Text is modelled as a sequence of tokens (each token stands for the     *)
(* characters it spells; no token is a prefix of another, so two token     *)
(* sequences are equal exactly when the strings they spell are equal and   *)
(* compare as the strings do).  Non-ASCII characters are spelled in angle  *)
(* brackets: "<deg>" is the degree sign, "<Omega>" the capital omega,      *)
(* "<A^>" and "<I^>" the A/I-circumflex and "<(c)>" the copyright sign of  *)
(* the keys as they are written in measure_rdflib.py.                      *)
(***************************************************************************)
EXTENDS Integers, Sequences, FiniteSets, TLC

VARIABLES
    pc,              \* position of the running script
    file_a,          \* sensor_A.csv: data rows, each a record of text cells
    file_b,          \* sensor_B.json: the parsed document
    file_c,          \* sensor_C.csv
    str_keeps_na,    \* pandas build: does astype(str) keep NaN/None missing
    df_a, df_b, df_c,\* frames returned by the loaders
    combined,        \* pd.concat of the three frames
    cleaned,         \* frame returned by normalize_and_clean
    out_csv,         \* readings_normalized.csv
    df,              \* measure_rdflib: frame read from the csv
    idx,             \* measure_rdflib: position of the next row
    g,               \* measure_rdflib: the graph, a set of triples
    artifacts_seen,  \* measure_rdflib: identity set
    qualities_seen,  \* measure_rdflib: identity set
    ttl,             \* measure_cco.ttl
    build_exit,      \* measure_rdflib: how the script ended
    ts_in, ts_out,   \* to_iso8601: argument and result
    data_exists,     \* run_sparql_qc: DATA.exists()
    queries_exists,  \* run_sparql_qc: QUERIES.exists()
    rq_files,        \* run_sparql_qc: number of *.rq files
    qi,              \* run_sparql_qc: position in the loop over rq_files
    failures,        \* run_sparql_qc: the accumulator
    evaluated,       \* run_sparql_qc: row count of every query run so far
    shown,           \* run_sparql_qc: rows printed for every query run so far
    qc_exit          \* run_sparql_qc: exit status, -1 while running

normVars  == <<file_a, file_b, file_c, str_keeps_na, df_a, df_b, df_c,
               combined, cleaned, out_csv>>
buildVars == <<df, idx, g, artifacts_seen, qualities_seen, ttl, build_exit>>
timeVars  == <<ts_in, ts_out>>
qcVars    == <<data_exists, queries_exists, rq_files, qi, failures,
               evaluated, shown, qc_exit>>
vars      == <<pc, normVars, buildVars, timeVars, qcVars>>

(***************************************************************************)
(* Values held in a cell of a frame or under a key of a JSON object.      *)
(***************************************************************************)
NaN     == [t |-> "nan",    s |-> <<>>, n |-> 0]   \* pandas missing marker
None    == [t |-> "none",   s |-> <<>>, n |-> 0]   \* Python None / JSON null
Absent  == [t |-> "absent", s |-> <<>>, n |-> 0]   \* key not in the object
False   == [t |-> "bool",   s |-> <<>>, n |-> 0]   \* JSON false
Str(s)  == [t |-> "str",    s |-> s,    n |-> 0]
Num(n)  == [t |-> "num",    s |-> <<>>, n |-> n]

FIELDS == <<"artifact_id", "sdc_kind", "unit_label", "value", "timestamp">>
FieldSet == {FIELDS[i] : i \in 1..Len(FIELDS)}

isna(x) == x.t \in {"nan", "none"}

\* Python truth value, as the `or` chains of load_sensor_b test it
Truthy(x) ==
    CASE x.t = "str"  -> x.s # <<>>
      [] x.t = "num"  -> x.n # 0
      [] x.t = "bool" -> x.n # 0
      [] OTHER        -> FALSE

(***************************************************************************)
(* Token strings.                                                          *)
(***************************************************************************)
DIGITS == <<"0", "1", "2", "3", "4", "5", "6", "7", "8", "9">>

RECURSIVE Dec(_)
\* str(n) of a natural number
Dec(n) == IF n < 10 THEN <<DIGITS[n + 1]>>
          ELSE Dec(n \div 10) \o <<DIGITS[(n % 10) + 1]>>

IsDigit(tok) == \E i \in 1..10 : DIGITS[i] = tok
DigitVal(tok) == (CHOOSE i \in 1..10 : DIGITS[i] = tok) - 1

RECURSIVE NumVal(_)
NumVal(s) == IF Len(s) = 1 THEN DigitVal(s[1])
             ELSE 10 * NumVal(SubSeq(s, 1, Len(s) - 1)) + DigitVal(s[Len(s)])

IsNumeral(s) == s # <<>> /\ \A i \in 1..Len(s) : IsDigit(s[i])

\* Python str(x)
PyStr(x) ==
    CASE x.t = "str"  -> x.s
      [] x.t = "num"  -> Dec(x.n)
      [] x.t = "bool" -> IF x.n = 0 THEN <<"False">> ELSE <<"True">>
      [] x.t = "nan"  -> <<"nan">>
      [] OTHER        -> <<"None">>

RECURSIVE LStrip(_)
LStrip(s) == IF s # <<>> /\ s[1] = " " THEN LStrip(Tail(s)) ELSE s
RECURSIVE RStrip(_)
RStrip(s) == IF s # <<>> /\ s[Len(s)] = " "
             THEN RStrip(SubSeq(s, 1, Len(s) - 1)) ELSE s
\* str.strip()
Strip(s) == RStrip(LStrip(s))

\* str.lower(), token by token; tokens without cased letters are kept
LOWER == ("Temp" :> "temp") @@ ("Pressure" :> "pressure")
      @@ ("Humidity" :> "humidity") @@ ("V" :> "v") @@ ("Pa" :> "pa")
      @@ ("Celsius" :> "celsius") @@ ("C" :> "c") @@ ("F" :> "f")
      @@ ("kPa" :> "kpa") @@ ("KPA" :> "kpa") @@ ("Ohm" :> "ohm")
      @@ ("<deg>C" :> "<deg>c") @@ ("<deg>F" :> "<deg>f")
      @@ ("<Omega>" :> "<omega>") @@ ("<A^><deg>C" :> "<a^><deg>c")
      @@ ("<A^><deg>F" :> "<a^><deg>f") @@ ("<I^><(c)>" :> "<i^><(c)>")
      @@ ("Artifact" :> "artifact") @@ ("Quality" :> "quality")
      @@ ("Measurement" :> "measurement") @@ ("None" :> "none")
Lower(s) == [i \in 1..Len(s) |->
                IF s[i] \in DOMAIN LOWER THEN LOWER[s[i]] ELSE s[i]]

\* str.replace(old, new) for a one-token `old`
Replace(s, old, new) == [i \in 1..Len(s) |-> IF s[i] = old THEN new ELSE s[i]]

\* Tokens in ascending order of the strings they spell (code-point order).
TOKEN_ORDER == <<" ", "#", "+00:00", "-", "-05:00",
                 "0", "0001-01-01", "0001-01-02", "00:00:00", "04:03:00",
                 "05:00:00", "1", "17:33:00", "18:30:00",
                 "2", "2024-03-16", "2024-03-17", "2024-03-18", "23:03:00",
                 "3", "4", "5", "6", "7", "8", "9",
                 "9999-12-30", "9999-12-31",
                 "Artifact", "Boiler", "Measurement", "None", "Quality", "T", "Unit",
                 "Z", "_", "nan", "pressure", "temperature">>
Rank(tok) == CHOOSE i \in 1..Len(TOKEN_ORDER) : TOKEN_ORDER[i] = tok

RECURSIVE StrLess(_, _)
\* a < b on Python strings
StrLess(a, b) ==
    IF b = <<>> THEN FALSE
    ELSE IF a = <<>> THEN TRUE
    ELSE IF a[1] = b[1] THEN StrLess(Tail(a), Tail(b))
    ELSE Rank(a[1]) < Rank(b[1])

(***************************************************************************)
(* Date/time text.  A timestamp is spelled <<date, sep, time>> or          *)
(* <<date, sep, time, offset>>; anything else does not parse.  Dates are   *)
(* numbered by their proleptic Gregorian ordinal (datetime.toordinal), so  *)
(* 0001-01-01 and 9999-12-31 are the first and last day a datetime holds.  *)
(***************************************************************************)
DATE_ORDINAL == ("0001-01-01" :> 1) @@ ("0001-01-02" :> 2)
             @@ ("2024-03-16" :> 738961) @@ ("2024-03-17" :> 738962)
             @@ ("2024-03-18" :> 738963)
             @@ ("9999-12-30" :> 3652058) @@ ("9999-12-31" :> 3652059)
TIME_MINUTE  == ("00:00:00" :> 0) @@ ("04:03:00" :> 243) @@ ("05:00:00" :> 300)
             @@ ("17:33:00" :> 1053) @@ ("18:30:00" :> 1110)
             @@ ("23:03:00" :> 1383)
UTC_OFFSET   == ("Z" :> 0) @@ ("+00:00" :> 0) @@ ("+05:30" :> 330)
             @@ ("-05:00" :> -300)
MinOrdinal == DATE_ORDINAL["0001-01-01"]
MaxOrdinal == DATE_ORDINAL["9999-12-31"]
DayMinutes == 24 * 60

NoDatetime == [ok |-> FALSE, day |-> 0, minute |-> 0, aware |-> FALSE, off |-> 0]

\* dateutil.parser.parse: the datetime a text spells, or a failure
dateparser_parse(s) ==
    IF /\ Len(s) \in {3, 4}
       /\ s[1] \in DOMAIN DATE_ORDINAL
       /\ s[2] \in {" ", "T"}
       /\ s[3] \in DOMAIN TIME_MINUTE
       /\ Len(s) = 4 => s[4] \in DOMAIN UTC_OFFSET
    THEN [ok |-> TRUE, day |-> DATE_ORDINAL[s[1]], minute |-> TIME_MINUTE[s[3]],
          aware |-> Len(s) = 4,
          off |-> IF Len(s) = 4 THEN UTC_OFFSET[s[4]] ELSE 0]
    ELSE NoDatetime

\* the UTC day and minute of the day of an aware datetime
UtcDay(dt)    == dt.day + ((dt.minute - dt.off) \div DayMinutes)
UtcMinute(dt) == (dt.minute - dt.off) % DayMinutes

\* dt.astimezone(timezone.utc); raises OverflowError outside the datetime range
astimezone_utc(dt) ==
    IF UtcDay(dt) < MinOrdinal \/ UtcDay(dt) > MaxOrdinal
    THEN NoDatetime
    ELSE [ok |-> TRUE, day |-> UtcDay(dt), minute |-> UtcMinute(dt),
          aware |-> TRUE, off |-> 0]

OffsetText(off) == IF off = 0 THEN "+00:00"
                   ELSE CHOOSE o \in DOMAIN UTC_OFFSET : UTC_OFFSET[o] = off

\* datetime.isoformat()
isoformat(dt) ==
    LET d == CHOOSE x \in DOMAIN DATE_ORDINAL : DATE_ORDINAL[x] = dt.day
        m == CHOOSE x \in DOMAIN TIME_MINUTE : TIME_MINUTE[x] = dt.minute
    IN  IF dt.aware THEN <<d, "T", m, OffsetText(dt.off)>> ELSE <<d, "T", m>>

\* ToUtc with the conversion left out: the offset is relabelled, not applied
ToUtcRelabel(dt) == [dt EXCEPT !.aware = TRUE, !.off = 0]

\* `dt = dt.replace(tzinfo=utc)` for a naive dt, then astimezone(utc)
ToUtc(dt) == astimezone_utc(IF dt.aware THEN dt
                            ELSE [dt EXCEPT !.aware = TRUE, !.off = 0])

to_iso8601(x) ==
    IF isna(x) \/ Strip(PyStr(x)) = <<>> THEN None
    ELSE LET dt == dateparser_parse(PyStr(x))
         IN  IF ~dt.ok THEN None
             ELSE LET u == ToUtc(dt)
                  IN  IF ~u.ok THEN None
                      ELSE LET iso == Replace(isoformat(u), "+00:00", "Z")
                           IN  Str(IF iso[Len(iso)] # "Z"
                                   THEN iso \o <<"Z">> ELSE iso)

(***************************************************************************)
(* normalize_readings.py                                                   *)
(***************************************************************************)
RECURSIVE Flatten(_)
\* concatenation of a sequence of sequences
Flatten(qq) == IF qq = <<>> THEN <<>> ELSE Head(qq) \o Flatten(Tail(qq))

CSV_NA_VALUES == {<<>>, <<"NA">>, <<"NaN">>}
RENAME == ("asset_id" :> "artifact_id") @@ ("measure_type" :> "sdc_kind")
       @@ ("unit" :> "unit_label") @@ ("reading" :> "value")
       @@ ("time" :> "timestamp")
Renamed(c) == IF c \in DOMAIN RENAME THEN RENAME[c] ELSE c

\* A csv file is [header |-> column names, rows |-> rows of cell texts].
\* load_sensor_a: read_csv(dtype=str, na_values=["", "NA", "NaN"]), rename,
\* keep the canonical columns that exist.
load_sensor_a(file) ==
    LET cols == {Renamed(file.header[j]) : j \in 1..Len(file.header)}
        kept == cols \cap FieldSet
        colOf(c) == CHOOSE j \in 1..Len(file.header) : Renamed(file.header[j]) = c
        cell(txt) == IF txt \in CSV_NA_VALUES THEN NaN ELSE Str(txt)
    IN  [i \in 1..Len(file.rows) |->
            [c \in kept |-> cell(file.rows[i][colOf(c)])]]

\* dict.get(key)
Get(r, k) == IF k \in DOMAIN r THEN r[k] ELSE None

\* Python `a or b`
PyOr(a, b) == IF Truthy(a) THEN a ELSE b

ALIASES == [artifact_id |-> <<"artifact", "asset", "entity_id">>,
            sdc_kind    |-> <<"kind", "measure_type", "sdc_kind">>,
            unit_label  |-> <<"uom", "unit", "unit_label">>,
            value       |-> <<"val", "reading", "value">>,
            timestamp   |-> <<"ts", "time", "timestamp">>]

\* r.get(k1) or r.get(k2) or r.get(k3)
ResolveField(r, keys) ==
    PyOr(PyOr(Get(r, keys[1]), Get(r, keys[2])), Get(r, keys[3]))

\* one reading_entry of the grouped shape, flattened
FlattenEntry(e) ==
    [i \in 1..Len(e.data) |->
        [artifact |-> IF e.entity_id = Absent THEN None ELSE e.entity_id,
         kind     |-> Get(e.data[i], "kind"),
         uom      |-> Get(e.data[i], "unit"),
         val      |-> Get(e.data[i], "value"),
         ts       |-> Get(e.data[i], "time")]]

\* the records of the document: grouped shape flattened, else the flat shapes
RecordsOf(doc) ==
    IF doc.shape = "grouped"
    THEN Flatten([i \in 1..Len(doc.readings) |-> FlattenEntry(doc.readings[i])])
    ELSE doc.records

load_sensor_b(doc) ==
    LET records == RecordsOf(doc)
    IN  [i \in 1..Len(records) |->
            [c \in FieldSet |-> ResolveField(records[i], ALIASES[c])]]

\* pd.concat(frames, ignore_index=True): columns a frame lacks are NaN;
\* `origin` is the index label the row gets here
concat(frames) ==
    LET rows == Flatten(frames)
    IN  [i \in 1..Len(rows) |->
            [c \in FieldSet \cup {"origin"} |->
                IF c = "origin" THEN Num(i - 1)
                ELSE IF c \in DOMAIN rows[i] THEN rows[i][c] ELSE NaN]]

\* Series.astype(str): object columns turn NaN/None into the text "nan"/"None";
\* builds whose str dtype is NA-aware keep them missing
astype_str(x, keepsNA) == IF isna(x) /\ keepsNA THEN NaN ELSE Str(PyStr(x))

\* pd.to_numeric(errors="coerce")
to_numeric(x) ==
    CASE x.t = "num"  -> x
      [] x.t = "bool" -> Num(x.n)
      [] x.t = "str"  -> IF IsNumeral(Strip(x.s)) THEN Num(NumVal(Strip(x.s)))
                         ELSE NaN
      [] OTHER        -> NaN

NORM_UNIT_MAP ==
       (<<"celsius">> :> "degC") @@ (<<"<deg>c">> :> "degC") @@ (<<"c">> :> "degC")
    @@ (<<"degc">> :> "degC") @@ (<<"<deg>C">> :> "degC")
    @@ (<<"fahrenheit">> :> "degF") @@ (<<"f">> :> "degF") @@ (<<"degf">> :> "degF")
    @@ (<<"<deg>f">> :> "degF") @@ (<<"<deg>F">> :> "degF")
    @@ (<<"pounds", " ", "per", " ", "square", " ", "inch">> :> "PSI_gauge")
    @@ (<<"psi">> :> "PSI_gauge")
    @@ (<<"kilopascal">> :> "kPa_gauge") @@ (<<"kpa">> :> "kPa_gauge")
    @@ (<<"KPA">> :> "kPa_gauge") @@ (<<"kPa">> :> "kPa_gauge")
    @@ (<<"volt">> :> "V") @@ (<<"volts">> :> "V") @@ (<<"v">> :> "V")
    @@ (<<"V">> :> "V")
    @@ (<<"ohm">> :> "<Omega>") @@ (<<"ohms">> :> "<Omega>")
    @@ (<<"<Omega>">> :> "<Omega>")

KIND_MAP == (<<"temp">> :> "temperature") @@ (<<"temperature">> :> "temperature")
         @@ (<<"pressure">> :> "pressure") @@ (<<"voltage">> :> "voltage")
         @@ (<<"resistance">> :> "resistance")

\* col.str.lower().map(table).fillna(col)
MapOrKeep(x, table) ==
    IF x.t # "str" THEN x
    ELSE IF Lower(x.s) \in DOMAIN table THEN Str(<<table[Lower(x.s)]>>) ELSE x

StrStrip(x) == IF x.t = "str" THEN Str(Strip(x.s)) ELSE x
StrReplace(x, old, new) == IF x.t = "str" THEN Str(Replace(x.s, old, new)) ELSE x

\* the column-wise steps of normalize_and_clean on one row
NormalizeRow(r, keepsNA) ==
    [c \in DOMAIN r |->
        CASE c = "artifact_id" ->
                 StrReplace(StrStrip(astype_str(r[c], keepsNA)), " ", "-")
          [] c = "sdc_kind"    ->
                 MapOrKeep(StrStrip(astype_str(r[c], keepsNA)), KIND_MAP)
          [] c = "unit_label"  ->
                 MapOrKeep(StrStrip(astype_str(r[c], keepsNA)), NORM_UNIT_MAP)
          [] c = "value"       -> to_numeric(r[c])
          [] c = "timestamp"   -> to_iso8601(r[c])
          [] OTHER             -> r[c]]

\* df.dropna(subset=the five columns)
dropna(rows) ==
    SelectSeq(rows, LAMBDA r : \A c \in FieldSet : ~isna(r[c]))

\* row ordering of sort_values(["artifact_id", "timestamp"])
RowLess(a, b) ==
    \/ StrLess(a.artifact_id.s, b.artifact_id.s)
    \/ /\ a.artifact_id.s = b.artifact_id.s
       /\ StrLess(a.timestamp.s, b.timestamp.s)

RECURSIVE InsertSorted(_, _)
\* r placed after every row that is not greater: the sort is stable
InsertSorted(sorted, r) ==
    IF sorted = <<>> THEN <<r>>
    ELSE IF RowLess(r, Head(sorted)) THEN <<r>> \o sorted
    ELSE <<Head(sorted)>> \o InsertSorted(Tail(sorted), r)

RECURSIVE sort_values(_)
sort_values(rows) ==
    IF rows = <<>> THEN <<>>
    ELSE InsertSorted(sort_values(SubSeq(rows, 1, Len(rows) - 1)), rows[Len(rows)])

normalize_and_clean(rows, keepsNA) ==
    sort_values(dropna([i \in 1..Len(rows) |-> NormalizeRow(rows[i], keepsNA)]))

\* DataFrame.to_csv(index=False): the text of every cell, NaN as empty text
CsvText(x) == IF isna(x) THEN <<>> ELSE PyStr(x)
to_csv(rows) ==
    [i \in 1..Len(rows) |-> [c \in FieldSet |-> CsvText(rows[i][c])]]

NoFile == [exists |-> FALSE, rows |-> <<>>]

\* steps 4-5 of the script: the three loaders, then pd.concat
LoadAll ==
    /\ pc = "load"
    /\ df_a' = load_sensor_a(file_a)
    /\ df_b' = load_sensor_b(file_b)
    /\ df_c' = load_sensor_a(file_c)
    /\ combined' = concat(<<df_a', df_b', df_c'>>)
    /\ pc' = "normalize"
    /\ UNCHANGED <<file_a, file_b, file_c, str_keeps_na, cleaned, out_csv>>
    /\ UNCHANGED <<buildVars, timeVars, qcVars>>

\* step 6
NormalizeAndClean ==
    /\ pc = "normalize"
    /\ cleaned' = normalize_and_clean(combined, str_keeps_na)
    /\ pc' = "write"
    /\ UNCHANGED <<file_a, file_b, file_c, str_keeps_na, df_a, df_b, df_c,
                   combined, out_csv>>
    /\ UNCHANGED <<buildVars, timeVars, qcVars>>

\* step 7
WriteCsv ==
    /\ pc = "write"
    /\ out_csv' = [exists |-> TRUE, rows |-> to_csv(cleaned)]
    /\ pc' = "normalized"
    /\ UNCHANGED <<file_a, file_b, file_c, str_keeps_na, df_a, df_b, df_c,
                   combined, cleaned>>
    /\ UNCHANGED <<buildVars, timeVars, qcVars>>

(***************************************************************************)
(* measure_rdflib.py                                                       *)
(***************************************************************************)
\* texts pd.read_csv reads as missing by default (those the model can spell)
READ_CSV_NA == {<<>>, <<"nan">>, <<"None">>, <<"NA">>, <<"NaN">>, <<"N/A">>,
                <<"null">>, <<"NULL">>}

\* pd.read_csv(csv_file): default missing markers, numeric columns inferred
read_csv(rows) ==
    LET numeric(c) == \A i \in 1..Len(rows) :
                          rows[i][c] \in READ_CSV_NA \/ IsNumeral(rows[i][c])
        cell(c, txt) == IF txt \in READ_CSV_NA THEN NaN
                        ELSE IF numeric(c) THEN Num(NumVal(txt))
                        ELSE Str(txt)
    IN  [i \in 1..Len(rows) |-> [c \in FieldSet |-> cell(c, rows[i][c])]]

\* one-character tokens outside [A-Za-z0-9_.-]
UNSAFE == {" ", "#", "@", "/"}

\* re.sub(r"[^A-Za-z0-9_.-]", "_", str(x))
clean(x) == [i \in 1..Len(PyStr(x)) |->
                IF PyStr(x)[i] \in UNSAFE THEN "_" ELSE PyStr(x)[i]]

QUALITY_MAP == (<<"temperature">> :> "temperature") @@ (<<"temp">> :> "temperature")
            @@ (<<"pressure">> :> "pressure") @@ (<<"voltage">> :> "voltage")
            @@ (<<"resistance">> :> "resistance")

UNIT_MAP == (<<"<A^><deg>C">> :> "C") @@ (<<"C">> :> "C")
         @@ (<<"<A^><deg>F">> :> "F") @@ (<<"F">> :> "F")
         @@ (<<"kPa">> :> "kPa") @@ (<<"Pa">> :> "kPa") @@ (<<"psi">> :> "psi")
         @@ (<<"V">> :> "V") @@ (<<"<I^><(c)>">> :> "ohm") @@ (<<"ohm">> :> "ohm")

UNIT_LABELS == ("C" :> <<"degree", " ", "Celsius">>)
            @@ ("F" :> <<"degree", " ", "Fahrenheit">>)
            @@ ("kPa" :> <<"kilopascal">>)
            @@ ("psi" :> <<"pounds", " ", "per", " ", "square", " ", "inch">>)
            @@ ("V" :> <<"volt">>) @@ ("ohm" :> <<"ohm">>)

NoKey == ""   \* dict.get of a key the table lacks (None)

\* QUALITY_MAP.get(row["sdc_kind"].strip().lower())
QualityLookup(kind) ==
    IF Lower(Strip(kind.s)) \in DOMAIN QUALITY_MAP
    THEN QUALITY_MAP[Lower(Strip(kind.s))] ELSE NoKey

\* a lenient lookup: an unknown unit is forced to kPa instead of rejected
UnitLookupLenient(unit) ==
    IF unit.t = "str" /\ unit.s \in DOMAIN UNIT_MAP THEN UNIT_MAP[unit.s]
    ELSE "kPa"

\* UNIT_MAP.get(row["unit_label"])
UnitLookup(unit) ==
    IF unit.t = "str" /\ unit.s \in DOMAIN UNIT_MAP THEN UNIT_MAP[unit.s]
    ELSE NoKey

\* Why the iteration over `row` raises ("" when it does not):
\* AttributeError (.strip() of a non-string), ValueError (unknown kind, unknown
\* unit) or the failure of dateparser.parse
RowError(row) ==
    IF row.sdc_kind.t # "str" THEN "AttributeError"
    ELSE IF QualityLookup(row.sdc_kind) = NoKey THEN "Unknown SDC kind"
    ELSE IF UnitLookup(row.unit_label) = NoKey THEN "Unknown unit"
    ELSE IF row.value.t # "num" /\ ~isna(row.value) THEN "float"
    ELSE IF row.timestamp.t # "str" THEN "TypeError"
    ELSE IF ~dateparser_parse(row.timestamp.s).ok THEN "ParserError"
    ELSE ""

\* node names in the EX namespace
ArtifactName(slug) == <<"Artifact", "_">> \o slug
QualityName(slug, kind) == slug \o <<"_", kind, "_", "Quality">>
\* the measurement name without the position
MeasurementNameNoIdx(slug, kind, i) == slug \o <<"_", kind, "_", "Measurement">>
MeasurementName(slug, kind, i) ==
    slug \o <<"_", kind, "_", "Measurement", "_">> \o Dec(i)
UnitName(unit) == <<"Unit", "_", unit>>

IRI_ARTIFACT == "cco:ont00000995"
IRI_SDC      == "obo:BFO_0000020"
IRI_MICE     == "cco:ont00001163"
IRI_MU       == "cco:ont00000120"

Uri(name)    == [k |-> "uri", v |-> name, dt |-> ""]
Literal(lex, datatype) == [k |-> "lit", v |-> lex, dt |-> datatype]
Triple(s, p, o) == [s |-> s, p |-> p, o |-> o]

\* str(float(v))
FloatText(v) == IF isna(v) THEN <<"nan">> ELSE Dec(v.n) \o <<".0">>

\* the triples one iteration adds for `row` at index label i, given the
\* graph and the identity sets it finds
RowTriples(row, i, graph, aseen, qseen) ==
    LET slug    == clean(row.artifact_id)
        kind    == QualityLookup(row.sdc_kind)
        unit    == UnitLookup(row.unit_label)
        tstamp  == dateparser_parse(row.timestamp.s)
        a       == ArtifactName(slug)
        q       == QualityName(slug, kind)
        m       == MeasurementName(slug, kind, i)
        u       == UnitName(unit)
        id      == PyStr(row.artifact_id)
        art     == IF a \in aseen THEN {}
                   ELSE {Triple(a, "rdf:type", Uri(<<IRI_ARTIFACT>>)),
                         Triple(a, "rdfs:label", Literal(id, ""))}
        qual    == IF q \in qseen THEN {}
                   ELSE {Triple(a, "bearer_of", Uri(q)),
                         Triple(q, "rdf:type", Uri(<<IRI_SDC>>)),
                         Triple(q, "rdfs:label",
                                Literal(id \o <<" ", kind, " ", "quality">>, ""))}
        meas    == {Triple(m, "rdf:type", Uri(<<IRI_MICE>>)),
                    Triple(m, "rdfs:label",
                           Literal(id \o <<" ", kind, " ", "measurement", " ">>
                                      \o Dec(i), "")),
                    Triple(m, "is_measure_of", Uri(q)),
                    Triple(m, "has_data_value",
                           Literal(FloatText(row.value), "xsd:decimal")),
                    Triple(m, "measurement_time",
                           Literal(isoformat(tstamp), "xsd:dateTime")),
                    Triple(m, "uses_mu", Uri(u))}
        unitT   == IF Triple(u, "rdf:type", Uri(<<IRI_MU>>)) \in graph THEN {}
                   ELSE {Triple(u, "rdf:type", Uri(<<IRI_MU>>)),
                         Triple(u, "rdfs:label", Literal(UNIT_LABELS[unit], ""))}
    IN  art \cup qual \cup meas \cup unitT

NoGraph == [exists |-> FALSE, triples |-> {}]

\* lines 18-20: the csv is not there
BuildNoCsv ==
    /\ pc = "load"
    /\ ~out_csv.exists
    /\ build_exit' = "exit 1"
    /\ pc' = "build_done"
    /\ UNCHANGED <<df, idx, g, artifacts_seen, qualities_seen, ttl>>
    /\ UNCHANGED <<normVars, timeVars, qcVars>>

\* lines 22-83: read the csv, start with an empty graph
BuildRead ==
    /\ pc = "normalized"
    /\ out_csv.exists
    /\ df' = read_csv(out_csv.rows)
    /\ idx' = 0
    /\ g' = {}
    /\ artifacts_seen' = {}
    /\ qualities_seen' = {}
    /\ pc' = "build_loop"
    /\ UNCHANGED <<ttl, build_exit>>
    /\ UNCHANGED <<normVars, timeVars, qcVars>>

\* lines 86-137: one iteration that runs to its end
BuildRow ==
    /\ pc = "build_loop"
    /\ idx < Len(df)
    /\ RowError(df[idx + 1]) = ""
    /\ LET row  == df[idx + 1]
           slug == clean(row.artifact_id)
           kind == QualityLookup(row.sdc_kind)
       IN  /\ g' = g \cup RowTriples(row, idx, g, artifacts_seen, qualities_seen)
           /\ artifacts_seen' = artifacts_seen \cup {ArtifactName(slug)}
           /\ qualities_seen' = qualities_seen \cup {QualityName(slug, kind)}
    /\ idx' = idx + 1
    /\ UNCHANGED <<pc, df, ttl, build_exit>>
    /\ UNCHANGED <<normVars, timeVars, qcVars>>

\* lines 90-101: an iteration that raises; the script ends with a traceback
BuildRaise ==
    /\ pc = "build_loop"
    /\ idx < Len(df)
    /\ RowError(df[idx + 1]) # ""
    /\ build_exit' = RowError(df[idx + 1])
    /\ pc' = "build_done"
    /\ UNCHANGED <<df, idx, g, artifacts_seen, qualities_seen, ttl>>
    /\ UNCHANGED <<normVars, timeVars, qcVars>>

\* lines 139-146: the loop is over, the graph is written
Serialize ==
    /\ pc = "build_loop"
    /\ idx = Len(df)
    /\ ttl' = [exists |-> TRUE, triples |-> g]
    /\ build_exit' = "exit 0"
    /\ pc' = "build_done"
    /\ UNCHANGED <<df, idx, g, artifacts_seen, qualities_seen>>
    /\ UNCHANGED <<normVars, timeVars, qcVars>>

(***************************************************************************)
(* run_sparql_qc.py                                                        *)
(***************************************************************************)
SHOW_LIMIT == 10
MaxQueries == 3

\* row counts a query may return: none, one, the print limit, more than it
ROW_COUNTS == {0, 1, SHOW_LIMIT, SHOW_LIMIT + 1}

Min(a, b) == IF a < b THEN a ELSE b

\* run_query: 1 when the query returned rows, else 0
run_query(n) == IF n > 0 THEN 1 ELSE 0

\* a loop that stops at the first failing query
MoreQueriesUntilFailure(i, n, f) == i < n /\ f = 0

\* `for qpath in rq_files`: is there a query left to run
MoreQueries(i, n, f) == i < n

\* lines 33-38
QcMissing ==
    /\ pc = "qc_start"
    /\ ~data_exists \/ ~queries_exists
    /\ qc_exit' = 2
    /\ pc' = "qc_done"
    /\ UNCHANGED <<data_exists, queries_exists, rq_files, qi, failures,
                   evaluated, shown>>
    /\ UNCHANGED <<normVars, buildVars, timeVars>>

\* lines 40-64
QcLoad ==
    /\ pc = "qc_start"
    /\ data_exists /\ queries_exists
    /\ failures' = 0
    /\ pc' = "qc_loop"
    /\ UNCHANGED <<data_exists, queries_exists, rq_files, qi, evaluated,
                   shown, qc_exit>>
    /\ UNCHANGED <<normVars, buildVars, timeVars>>

\* lines 65-66 with run_query, for a query that returns n rows
QcRunQuery ==
    /\ pc = "qc_loop"
    /\ MoreQueries(qi, rq_files, failures)
    /\ \E n \in ROW_COUNTS :
          /\ evaluated' = Append(evaluated, n)
          /\ shown' = Append(shown, Min(n, SHOW_LIMIT))
          /\ failures' = failures + run_query(n)
    /\ qi' = qi + 1
    /\ UNCHANGED <<pc, data_exists, queries_exists, rq_files, qc_exit>>
    /\ UNCHANGED <<normVars, buildVars, timeVars>>

\* lines 68-73
QcSummary ==
    /\ pc = "qc_loop"
    /\ ~MoreQueries(qi, rq_files, failures)
    /\ qc_exit' = IF failures # 0 THEN 1 ELSE 0
    /\ pc' = "qc_done"
    /\ UNCHANGED <<data_exists, queries_exists, rq_files, qi, failures,
                   evaluated, shown>>
    /\ UNCHANGED <<normVars, buildVars, timeVars>>

(***************************************************************************)
(* Calls of to_iso8601 and load_sensor_b on their own                      *)
(***************************************************************************)
CallToIso ==
    /\ pc = "call_to_iso8601"
    /\ ts_out' = to_iso8601(ts_in)
    /\ pc' = "returned"
    /\ UNCHANGED <<ts_in, normVars, buildVars, qcVars>>

CallLoadB ==
    /\ pc = "call_load_sensor_b"
    /\ df_b' = load_sensor_b(file_b)
    /\ pc' = "returned"
    /\ UNCHANGED <<file_a, file_b, file_c, str_keeps_na, df_a, df_c,
                   combined, cleaned, out_csv>>
    /\ UNCHANGED <<buildVars, timeVars, qcVars>>

(***************************************************************************)
(* Inputs                                                                  *)
(***************************************************************************)
MaxRows    == 3   \* readings in the input files of a pipeline run
MaxRawRows == 2   \* readings in the input files of a normalization run

SeqsUpTo(S, n) == UNION {[1..k -> S] : k \in 0..n}

HEADER_A == <<"asset_id", "measure_type", "unit", "reading", "time">>
EmptyCsv(header) == [header |-> header, rows |-> <<>>]
EmptyDoc == [shape |-> "list", readings |-> <<>>, records |-> <<>>]

NAIVE_TS  == <<"2024-03-17", " ", "23:03:00">>
OFFSET_TS == <<"2024-03-17", "T", "23:03:00", "+05:30">>

\* the readings of a pipeline run: artifact id, kind, unit
READINGS ==
    {<<id, <<"Temp">>, <<"V">>>> :
        id \in {<<"Artifact", "_", "7">>, <<"Artifact", "#", "7">>,
                <<"7", "_", "temperature", "_", "Quality">>,
                <<"7", "_", "temperature", "_", "Measurement", "_", "2">>}}
    \cup {<<<<"Artifact", "_", "7">>, k, u>> :
            <<k, u>> \in {<<<<"pressure">>, <<"V">>>>,
                          <<<<"Temp">>, <<"Celsius">>>>,
                          <<<<"Humidity">>, <<"V">>>>}}

\* a reading as a row of sensor_A.csv and as an entry of the grouped document
CsvRow(r) == <<r[1], r[2], r[3], <<"5">>, NAIVE_TS>>
GroupedEntry(r) ==
    [entity_id |-> Str(r[1]),
     data |-> <<[kind |-> Str(r[2]), unit |-> Str(r[3]), value |-> Num(5),
                 time |-> Str(OFFSET_TS)]>>]

\* rows of a normalization run: every cell a missing marker or a value
RAW_CSV_ROWS ==
    {<<id, k, u, v, t>> :
        id \in {<<>>, <<" ", "Boiler", " ", "7">>},
        k  \in {<<"NA">>, <<"Temp">>},
        u  \in {<<"NaN">>, <<"Celsius">>},
        v  \in {<<>>, <<"5">>},
        t  \in {<<"NA">>, NAIVE_TS}}

\* flat records of a normalization run: every field absent, null or a value
RAW_JSON_RECORDS ==
    {[k \in keys |->
        CASE k = "asset" -> Str(<<"Boiler", " ", "7">>)
          [] k = "kind"  -> kv
          [] k = "uom"   -> Str(<<"volts">>)
          [] k = "val"   -> vv
          [] k = "time"  -> Str(OFFSET_TS)] :
        keys \in {{"kind", "val"} \cup x : x \in SUBSET {"asset", "uom", "time"}},
        kv \in {None, Str(<<"pressure">>)},
        vv \in {None, Num(5)}}

BuildIdle ==
    /\ df = <<>> /\ idx = 0 /\ g = {}
    /\ artifacts_seen = {} /\ qualities_seen = {}
    /\ ttl = NoGraph /\ build_exit = "running"
TimeIdle == ts_in = Absent /\ ts_out = Absent
QcIdle ==
    /\ data_exists = FALSE /\ queries_exists = FALSE /\ rq_files = 0
    /\ qi = 0 /\ failures = 0 /\ evaluated = <<>> /\ shown = <<>>
    /\ qc_exit = -1
NormIdle ==
    /\ file_a = EmptyCsv(HEADER_A) /\ file_b = EmptyDoc
    /\ file_c = EmptyCsv(FIELDS) /\ str_keeps_na = FALSE
    /\ df_a = <<>> /\ df_b = <<>> /\ df_c = <<>>
    /\ combined = <<>> /\ cleaned = <<>> /\ out_csv = NoFile

\* normalize_readings.py on files whose cells may be missing
InitNorm ==
    /\ pc = "load"
    /\ \E a \in SeqsUpTo(RAW_CSV_ROWS, MaxRawRows),
          b \in SeqsUpTo(RAW_JSON_RECORDS, MaxRawRows) :
          /\ Len(a) + Len(b) <= MaxRawRows
          /\ file_a = [header |-> HEADER_A, rows |-> a]
          /\ file_b = [shape |-> "list", readings |-> <<>>, records |-> b]
    /\ file_c = EmptyCsv(FIELDS)
    /\ str_keeps_na \in BOOLEAN
    /\ df_a = <<>> /\ df_b = <<>> /\ df_c = <<>>
    /\ combined = <<>> /\ cleaned = <<>> /\ out_csv = NoFile
    /\ BuildIdle /\ TimeIdle /\ QcIdle

NextNorm == LoadAll \/ NormalizeAndClean \/ WriteCsv
SpecNorm == InitNorm /\ [][NextNorm]_vars

\* normalize_readings.py, then measure_rdflib.py, on complete readings
InitPipe ==
    /\ pc = "load"
    /\ \E a \in SeqsUpTo(READINGS, MaxRows), b \in SeqsUpTo(READINGS, MaxRows) :
          /\ Len(a) + Len(b) <= MaxRows
          /\ file_a = [header |-> HEADER_A,
                       rows |-> [i \in 1..Len(a) |-> CsvRow(a[i])]]
          /\ file_b = [shape |-> "grouped",
                       readings |-> [i \in 1..Len(b) |-> GroupedEntry(b[i])],
                       records |-> <<>>]
    /\ file_c = EmptyCsv(FIELDS)
    /\ str_keeps_na = FALSE
    /\ df_a = <<>> /\ df_b = <<>> /\ df_c = <<>>
    /\ combined = <<>> /\ cleaned = <<>> /\ out_csv = NoFile
    /\ BuildIdle /\ TimeIdle /\ QcIdle

NextPipe ==
    \/ LoadAll \/ NormalizeAndClean \/ WriteCsv
    \/ BuildNoCsv \/ BuildRead \/ BuildRow \/ BuildRaise \/ Serialize
SpecPipe == InitPipe /\ [][NextPipe]_vars

\* run_sparql_qc.py
InitQc ==
    /\ pc = "qc_start"
    /\ data_exists \in BOOLEAN
    /\ queries_exists \in BOOLEAN
    /\ rq_files \in 0..MaxQueries
    /\ ~queries_exists => rq_files = 0
    /\ qi = 0 /\ failures = 0 /\ evaluated = <<>> /\ shown = <<>>
    /\ qc_exit = -1
    /\ NormIdle /\ BuildIdle /\ TimeIdle

NextQc == QcMissing \/ QcLoad \/ QcRunQuery \/ QcSummary
SpecQc == InitQc /\ [][NextQc]_vars

\* to_iso8601 on one argument
TS_TEXTS ==
    {<<d, sep, t>> : d \in {"0001-01-01", "2024-03-17", "9999-12-31"},
                     sep \in {" ", "T"}, t \in {"00:00:00", "23:03:00"}}
TS_INPUTS ==
    {NaN, None, Str(<<>>), Str(<<" ">>), Str(<<"garbage">>)}
    \cup {Str(x) : x \in TS_TEXTS}
    \cup {Str(x \o <<o>>) : x \in TS_TEXTS, o \in DOMAIN UTC_OFFSET}

InitTime ==
    /\ pc = "call_to_iso8601"
    /\ ts_in \in TS_INPUTS
    /\ ts_out = Absent
    /\ NormIdle /\ BuildIdle /\ QcIdle

SpecTime == InitTime /\ [][CallToIso]_vars

\* load_sensor_b on one document
JSON_VALUES == {None, False, Num(0), Num(5), Str(<<>>), Str(<<"5">>)}

\* a flat record: the three aliases of `value` absent or holding any JSON
\* value, the other fields under one of their aliases
FLAT_RECORDS ==
    {[k \in keys \cup {ALIASES.artifact_id[a], "kind", "uom", "ts"} |->
        CASE k = "val"     -> v1
          [] k = "reading" -> v2
          [] k = "value"   -> v3
          [] k = "kind"    -> Str(<<"Temp">>)
          [] k = "uom"     -> Str(<<"V">>)
          [] k = "ts"      -> Str(NAIVE_TS)
          [] OTHER         -> Str(<<"Boiler", "-", "7">>)] :
        keys \in SUBSET {"val", "reading", "value"}, a \in 1..3,
        v1 \in JSON_VALUES, v2 \in {Num(0), Num(7)}, v3 \in {False, Num(9)}}

InitLoadB ==
    /\ pc = "call_load_sensor_b"
    /\ \/ \E r \in FLAT_RECORDS :
             file_b = [shape |-> "single", readings |-> <<>>, records |-> <<r>>]
       \/ \E v \in JSON_VALUES \cup {Absent} :
             file_b = [shape |-> "grouped", records |-> <<>>,
                       readings |-> <<[entity_id |-> Str(<<"Boiler", "-", "7">>),
                                       data |-> <<[k \in IF v = Absent
                                                         THEN {"kind", "unit", "time"}
                                                         ELSE {"kind", "unit", "time", "value"} |->
                                                     CASE k = "kind"  -> Str(<<"Temp">>)
                                                       [] k = "unit"  -> Str(<<"V">>)
                                                       [] k = "time"  -> Str(NAIVE_TS)
                                                       [] OTHER       -> v]>>]>>]
    /\ file_a = EmptyCsv(HEADER_A) /\ file_c = EmptyCsv(FIELDS)
    /\ str_keeps_na = FALSE
    /\ df_a = <<>> /\ df_b = <<>> /\ df_c = <<>>
    /\ combined = <<>> /\ cleaned = <<>> /\ out_csv = NoFile
    /\ BuildIdle /\ TimeIdle /\ QcIdle

SpecLoadB == InitLoadB /\ [][CallLoadB]_vars

(***************************************************************************)
(* Properties                                                              *)
(***************************************************************************)
TypedAs(graph, class) ==
    {t.s : t \in {x \in graph : x.p = "rdf:type" /\ x.o = Uri(<<class>>)}}
ObjectsOf(graph, node, p) == {t.o : t \in {x \in graph : x.s = node /\ x.p = p}}

\* the row of `combined` a row of `cleaned` comes from
SourceRow(r) == combined[r.origin.n + 1]

\* C1: no record with a missing value in any of the five fields appears in
\* the output of normalize_and_clean; every output record has all five
\* fields populated from its input record.
C1_NoMissingForwarded ==
    pc \in {"write", "normalized"} =>
        \A i \in 1..Len(cleaned) : \A c \in FieldSet :
            /\ ~isna(SourceRow(cleaned[i])[c])
            /\ ~isna(cleaned[i][c])

\* every reading of the run is complete and spells its kind and its unit
\* with a synonym the normalization tables know
AllRecognized ==
    \A i \in 1..Len(combined) :
        /\ \A c \in FieldSet : combined[i][c].t \in {"str", "num"}
        /\ Lower(Strip(combined[i].sdc_kind.s)) \in DOMAIN KIND_MAP
        /\ Lower(Strip(combined[i].unit_label.s)) \in DOMAIN NORM_UNIT_MAP

\* C2: normalization followed by graph emission, on readings that are all
\* complete with recognized kind and unit synonyms, ends without error with
\* one Measurement node per reading, one Artifact node per distinct artifact
\* and one Unit node per distinct canonical unit.
C2_EndToEndCounts ==
    (pc = "build_done" /\ out_csv.exists /\ AllRecognized) =>
        /\ build_exit = "exit 0"
        /\ ttl.exists
        /\ Cardinality(TypedAs(ttl.triples, IRI_MICE)) = Len(combined)
        /\ Cardinality(TypedAs(ttl.triples, IRI_ARTIFACT))
             = Cardinality({cleaned[i].artifact_id : i \in 1..Len(cleaned)})
        /\ Cardinality(TypedAs(ttl.triples, IRI_MU))
             = Cardinality({cleaned[i].unit_label : i \in 1..Len(cleaned)})

\* C3: once the stream is processed, Artifact nodes correspond one-to-one to
\* the distinct artifact_id values and Quality nodes to the distinct
\* (artifact_id, sdc_kind) pairs.
C3_NodesMatchIdentifiers ==
    (pc = "build_done" /\ build_exit = "exit 0") =>
        /\ Cardinality(TypedAs(g, IRI_ARTIFACT))
             = Cardinality({df[i].artifact_id : i \in 1..Len(df)})
        /\ Cardinality(TypedAs(g, IRI_SDC))
             = Cardinality({<<df[i].artifact_id, df[i].sdc_kind>> :
                              i \in 1..Len(df)})

\* C4: every processed record has a Measurement node of its own, also when
\* two records agree on all five fields: there are as many Measurement nodes
\* as processed records, each with exactly one value, one timestamp, one
\* measured Quality and one Unit.
C4_OneMeasurementPerRecord ==
    pc \in {"build_loop", "build_done"} =>
        /\ Cardinality(TypedAs(g, IRI_MICE)) = idx
        /\ \A m \in TypedAs(g, IRI_MICE) :
              \A p \in {"has_data_value", "measurement_time",
                        "is_measure_of", "uses_mu"} :
                  Cardinality(ObjectsOf(g, m, p)) = 1

\* two records that agree on all five fields were both emitted
C4_Witness ==
    /\ ttl.exists
    /\ Len(df) >= 2
    /\ \E i \in 1..Len(df) : \E j \in 1..Len(df) : i # j /\ df[i] = df[j]
    /\ Cardinality(TypedAs(ttl.triples, IRI_MICE)) = Len(df)

\* the value under the first of the keys that is present (None when none is)
FirstPresent(r, keys) ==
    IF \E i \in 1..Len(keys) : keys[i] \in DOMAIN r
    THEN r[keys[CHOOSE i \in 1..Len(keys) :
                  /\ keys[i] \in DOMAIN r
                  /\ \A j \in 1..(i - 1) : keys[j] \notin DOMAIN r]]
    ELSE None

\* C5: load_sensor_b resolves every canonical field to the value stored
\* under the first alias key present in the record, whatever that value is.
C5_FirstAliasWins ==
    pc = "returned" =>
        \A i \in 1..Len(df_b) : \A c \in FieldSet :
            df_b[i][c] = FirstPresent(RecordsOf(file_b)[i], ALIASES[c])

\* a row carries a kind or a unit that is no key of the builder's tables
OffendingRow(row) ==
    \/ row.sdc_kind.t # "str" \/ row.sdc_kind.s \notin DOMAIN QUALITY_MAP
    \/ row.unit_label.t # "str" \/ row.unit_label.s \notin DOMAIN UNIT_MAP

\* C6: if any record of the stream carries a kind or a unit that is not a
\* key of the builder's tables, emission ends in a failure and the graph is
\* never serialized.
C6_UnknownVocabularyAborts ==
    (\E i \in 1..Len(df) : OffendingRow(df[i])) =>
        /\ ~ttl.exists
        /\ build_exit # "exit 0"
        /\ pc = "build_done" => build_exit \notin {"exit 0", "running"}

\* a valid record was processed before the offending one stopped the run
C6_Witness ==
    /\ pc = "build_done"
    /\ idx >= 1
    /\ build_exit = "Unknown unit"
    /\ ~ttl.exists

\* the argument of to_iso8601 parses
Parseable(x) == ~isna(x) /\ dateparser_parse(PyStr(x)).ok
\* the datetime the argument spells, a missing timezone read as UTC
AsAware(x) == LET dt == dateparser_parse(PyStr(x))
              IN  IF dt.aware THEN dt ELSE [dt EXCEPT !.aware = TRUE, !.off = 0]
\* the UTC instant of the argument is one a datetime can hold
Representable(x) ==
    UtcDay(AsAware(x)) >= MinOrdinal /\ UtcDay(AsAware(x)) <= MaxOrdinal

\* the result spells the instant of the argument in UTC with a Z suffix
SameInstantInZ(x, out) ==
    /\ out.t = "str"
    /\ out.s[Len(out.s)] = "Z"
    /\ \A i \in 1..Len(out.s) : out.s[i] # "+00:00"
    /\ LET o == dateparser_parse(out.s)
       IN  /\ o.ok /\ o.aware /\ o.off = 0
           /\ o.day = UtcDay(AsAware(x))
           /\ o.minute = UtcMinute(AsAware(x))
    /\ ~dateparser_parse(PyStr(x)).aware =>
          /\ out.s[1] = PyStr(x)[1]
          /\ out.s[3] = PyStr(x)[3]

\* C7 as stated: every parseable timestamp is rendered as the same instant in
\* UTC with a Z suffix; unparseable or empty input gives missing.
C7_EveryParseableConverted ==
    pc = "returned" =>
        IF Parseable(ts_in) THEN SameInstantInZ(ts_in, ts_out)
        ELSE ts_out = None

\* C7 amended: a parseable timestamp whose UTC instant lies within the
\* datetime range is rendered as that instant in UTC with a Z suffix (wall
\* clock unchanged when the input has no timezone); a parseable timestamp
\* whose UTC instant lies outside the range, like an unparseable or empty
\* input, gives missing.
C7_RepresentableConverted ==
    pc = "returned" =>
        IF Parseable(ts_in) /\ Representable(ts_in)
        THEN SameInstantInZ(ts_in, ts_out)
        ELSE ts_out = None

\* an input with a non-UTC offset came back shifted to UTC
C7_Witness ==
    /\ pc = "returned"
    /\ ts_in = Str(OFFSET_TS)
    /\ ts_out = Str(<<"2024-03-17", "T", "17:33:00", "Z">>)

AnyRows == \E i \in 1..Len(evaluated) : evaluated[i] > 0

AllSeen ==
    /\ pc = "build_loop" /\ idx < Len(df) /\ RowError(df[idx + 1]) = ""
    /\ LET slug == clean(df[idx + 1].artifact_id)
           kind == QualityLookup(df[idx + 1].sdc_kind)
       IN  /\ ArtifactName(slug) \in artifacts_seen
           /\ QualityName(slug, kind) \in qualities_seen
           /\ Triple(UnitName(UnitLookup(df[idx + 1].unit_label)), "rdf:type",
                     Uri(<<IRI_MU>>)) \in g

DescribedAs(graph, node) ==
    {t \in graph : t.s = node /\ t.p \in {"rdf:type", "rdfs:label", "bearer_of"}}

\* C9: a step on a record whose Artifact, Quality and Unit were all met
\* earlier adds only triples whose subject is the new Measurement node, and
\* leaves the type, label and bearer-of triples of every existing Artifact,
\* Quality and Unit node and the two identity sets unchanged.
C9_ReuseAddsOnlyMeasurement ==
    [][AllSeen =>
         LET row == df[idx + 1]
             m   == MeasurementName(clean(row.artifact_id),
                                    QualityLookup(row.sdc_kind), idx)
         IN  /\ \A t \in g' \ g : t.s = m
             /\ artifacts_seen' = artifacts_seen
             /\ qualities_seen' = qualities_seen
             /\ \A n \in TypedAs(g, IRI_ARTIFACT) \cup TypedAs(g, IRI_SDC)
                           \cup TypedAs(g, IRI_MU) :
                   DescribedAs(g', n) = DescribedAs(g, n)]_vars

\* C10: no node of the graph is typed as more than one of Artifact, Quality,
\* Measurement and Unit.
C10_KindsDisjoint ==
    \A t1 \in g : \A t2 \in g :
        (t1.p = "rdf:type" /\ t2.p = "rdf:type" /\ t1.s = t2.s) => t1.o = t2.o

====
